---- MODULE Spec2Model ----
(***************************************************************************)
(* Model of the two GPflow example notebooks:                              *)
(*   doc/source/notebooks/monitor-tensorboard.ipynb  (the monitor demo)    *)
(*   the natural gradients notebook (run_adam, run_nat_grads_with_adam)    *)
(* The notebooks' own cells are modelled from their code.  What they call  *)
(* into (gpflow.training.monitor, gpflow.actions, the optimisers) is not   *)
(* part of the sources at hand and is modelled from the notebooks' prose.  *)
(***************************************************************************)
EXTENDS Integers, Sequences, FiniteSets, TLC

VARIABLES
    run,            \* which execution of the monitor notebook this is (1..MaxRuns)
    pc,             \* the notebook cell to execute next, or the position inside cell 16
    graph_vars,     \* the TensorFlow variables that exist in the graph
    session,        \* the session: value of every existing variable
    defined,        \* names of the monitor tasks constructed so far
    saver_vars,     \* the variable list the checkpoint task's Saver was built with
    writers,        \* file writer handle -> [location, open]
    open_log,       \* history: every attempt to open a file writer and its outcome
    monitor,        \* the Monitor object last constructed
    opt_iter,       \* loop index of optimiser.minimize (steps done in this call)
    call_log,       \* history: iteration_no at every call of the monitor
    events,         \* history: every task execution of this run, in order
    summary,        \* the printed task timing summary (sequence of task names)
    restore_log,    \* history: what the restore cell did in this run
    checkpoints,    \* file system: checkpoints in ./monitor-saves, oldest first
    saves_dir,      \* file system: does the directory ./monitor-saves exist?
    event_file,     \* file system: events written below the TensorBoard locations
    \* natural gradients notebook: one call of run_adam / run_nat_grads_with_adam
    ng_pc,          \* "start", "loop", "anchor" or "returned"
    ng_call,        \* the arguments of the call, and the model's flags before it
    ng_trainable,   \* the model: parameter -> trainable flag
    ng_updates,     \* the model: parameter -> number of updates by each optimiser
    ng_adam_vars,   \* the parameters the Adam action was built to optimise
    ng_natgrad_vars,\* the parameters the NatGrad action was built to optimise
    ng_actions,     \* the action list handed to Loop
    ng_iteration,   \* the Loop's iteration number
    ng_index,       \* the next action of the list within the iteration
    ng_trace,       \* history: every action run, with the iteration it saw
    \* monitor notebook, cell 11: one CustomTensorBoardTask and one call of its run
    ct_pc,          \* "start", "ready", "done" or "error"
    ct_rows,        \* number of rows of the test set bound to the module-level Xt, Yt
    ct_args,        \* the test set handed to the constructor
    ct_self,        \* the task object: its attributes Xt and Yt
    ct_slices,      \* the slices run handed to predict_y, in order
    ct_preds,       \* the stacked predictions, one entry per row
    ct_test_err     \* the test sets the reported error was computed from

mon_vars == <<run, pc, graph_vars, session, defined, saver_vars, writers, open_log,
              monitor, opt_iter, call_log, events, summary, restore_log,
              checkpoints, saves_dir, event_file>>

ng_vars == <<ng_pc, ng_call, ng_trainable, ng_updates, ng_adam_vars, ng_natgrad_vars,
             ng_actions, ng_iteration, ng_index, ng_trace>>

ct_vars == <<ct_pc, ct_rows, ct_args, ct_self, ct_slices, ct_preds, ct_test_err>>

vars == <<mon_vars, ng_vars, ct_vars>>

(***************************************************************************)
(* Bounds of the model                                                     *)
(***************************************************************************)
\* how many times the monitor notebook is executed against the same directory
MaxRuns == 2
\* how many further file writers a run tries to open besides file_writer
MaxOpenAttempts == 1
\* the largest `iterations` argument of run_adam / run_nat_grads_with_adam
MaxIterations == 5
\* the largest number of rows of the module-level test set
MaxRows == 201
\* the number of rows of the second test set
OtherRows == 150

(***************************************************************************)
(* Program constants                                                       *)
(***************************************************************************)
maxiter == 450

model_name == "SVGP"
tensorboard_dir == "./model-tensorboard"
Locations == {tensorboard_dir, "./other-tensorboard"}

\* file writer handles: the notebook's file_writer, and no writer at all
file_writer == <<"file_writer", 0>>
NO_WRITER == <<"none", 0>>

PARAMS == <<model_name, "params">>
GLOBAL_STEP == <<"", "global_step">>

(***************************************************************************)
(* gpflow.training.monitor: tasks and their running conditions             *)
(***************************************************************************)
\* A task as constructed: named after its class, run at every iteration,
\* not run at the end of optimisation.
MonitorTask(class) ==
    [class |-> class, name |-> class,
     condition |-> [type |-> "always", interval |-> 1],
     exit_condition |-> FALSE, writer |-> NO_WRITER]

BaseTensorBoardTask(class, writer) == [MonitorTask(class) EXCEPT !.writer = writer]

with_name(task, name) == [task EXCEPT !.name = name]

with_condition(task, condition) == [task EXCEPT !.condition = condition]

with_exit_condition(task, flag) == [task EXCEPT !.exit_condition = flag]

PeriodicIterationCondition(interval) == [type |-> "periodic", interval |-> interval]

\* Does the running condition hold in the monitor context ctx?
ConditionHolds(condition, ctx) ==
    IF condition.type = "periodic"
    THEN ctx.iteration_no > 0 /\ ctx.iteration_no % condition.interval = 0
    ELSE TRUE

(***************************************************************************)
(* The notebook's tasks (cells 8 and 11) and task list (cell 13)           *)
(***************************************************************************)
\* Mutants of print_task: a period of 100 in place of 10; no exit condition.
print_task_every_100 ==
    with_exit_condition(
        with_condition(with_name(MonitorTask("PrintTimingsTask"), "print"),
                       PeriodicIterationCondition(100)),
        TRUE)

print_task_no_exit ==
    with_condition(with_name(MonitorTask("PrintTimingsTask"), "print"),
                   PeriodicIterationCondition(10))

print_task ==
    with_exit_condition(
        with_condition(with_name(MonitorTask("PrintTimingsTask"), "print"),
                       PeriodicIterationCondition(10)),
        TRUE)

\* Mutant of sleep_task: given an exit condition like the other tasks.
sleep_task_with_exit ==
    with_exit_condition(with_name(MonitorTask("SleepTask"), "sleep"), TRUE)

sleep_task == with_name(with_name(MonitorTask("SleepTask"), "sleep"), "sleep")

saver_task ==
    with_exit_condition(
        with_condition(with_name(MonitorTask("CheckpointTask"), "saver"),
                       PeriodicIterationCondition(10)),
        TRUE)

model_tboard_task ==
    with_exit_condition(
        with_condition(
            with_name(BaseTensorBoardTask("ModelToTensorBoardTask", file_writer),
                      "model_tboard"),
            PeriodicIterationCondition(10)),
        TRUE)

lml_tboard_task ==
    with_exit_condition(
        with_condition(
            with_name(BaseTensorBoardTask("LmlToTensorBoardTask", file_writer),
                      "lml_tboard"),
            PeriodicIterationCondition(100)),
        TRUE)

custom_tboard_task ==
    with_exit_condition(
        with_condition(
            with_name(BaseTensorBoardTask("CustomTensorBoardTask", file_writer),
                      "custom_tboard"),
            PeriodicIterationCondition(100)),
        TRUE)

\* Mutant of monitor_tasks: the likelihood task listed before the print task.
monitor_tasks_lml_first ==
    <<lml_tboard_task, print_task, model_tboard_task, custom_tboard_task,
      saver_task, sleep_task>>

\* Mutant of monitor_tasks: the sleep task listed first.
monitor_tasks_sleep_first ==
    <<sleep_task, print_task, model_tboard_task, lml_tboard_task, custom_tboard_task,
      saver_task>>

monitor_tasks ==
    <<print_task, model_tboard_task, lml_tboard_task, custom_tboard_task,
      saver_task, sleep_task>>

\* Mutant of cells: the tasks are defined before global_step is created.
cells_tasks_first ==
    <<"build_model", "define_tasks", "create_global_step", "custom_task",
      "build_monitor", "restore", "optimise">>

\* The notebook, cell by cell, in the order the cells are executed.
cells ==
    <<"build_model", "create_global_step", "define_tasks", "custom_task",
      "build_monitor", "restore", "optimise">>

CellIndex(c) == CHOOSE i \in 1..Len(cells) : cells[i] = c

NextCell(c) ==
    IF CellIndex(c) < Len(cells) THEN cells[CellIndex(c) + 1] ELSE "done"

(***************************************************************************)
(* gpflow.training.monitor: file writers, checkpoints, the Monitor         *)
(***************************************************************************)
\* Is an open file writer using the event location?
InUse(ws, location) ==
    \E h \in DOMAIN ws : ws[h].open /\ ws[h].location = location

\* LogdirWriter(location): an error when an open writer already uses the
\* location, otherwise a new open writer under the handle.
LogdirWriter(ws, handle, location) ==
    IF InUse(ws, location)
    THEN [result |-> "error", writers |-> ws]
    ELSE [result |-> "ok",
          writers |-> [h \in DOMAIN ws \cup {handle} |->
                          IF h = handle THEN [location |-> location, open |-> TRUE]
                          ELSE ws[h]]]

OpenRecord(ws, handle, location) ==
    [handle |-> handle, location |-> location, in_use |-> InUse(ws, location),
     result |-> LogdirWriter(ws, handle, location).result]

\* mon.create_global_step(session): a new variable, initialised to 0.
create_global_step(sess) ==
    [v \in DOMAIN sess \cup {GLOBAL_STEP} |-> IF v = GLOBAL_STEP THEN 0 ELSE sess[v]]

\* os.path.isdir('./monitor-saves')
isdir(exists) == exists

\* mon.restore_session(session, dir): every variable of the session takes the
\* value stored under its name in the latest checkpoint of the directory.  A
\* directory without a checkpoint has no latest checkpoint: the call fails and
\* the session is left as it was.
restore_session(sess, cps) ==
    IF cps = <<>>
    THEN [error |-> TRUE, session |-> sess]
    ELSE LET latest == cps[Len(cps)]
         IN  [error |-> FALSE,
              session |-> [v \in DOMAIN sess |->
                              IF v \in DOMAIN latest THEN latest[v] ELSE sess[v]]]

\* CheckpointTask.run: the Saver stores the variables it was built with.
Checkpoint(sess, saved) == [v \in saved \cap DOMAIN sess |-> sess[v]]

\* Monitor(monitor_tasks, session, global_step, print_summary)
Monitor(tasks, print_summary) ==
    [built |-> TRUE, tasks |-> tasks, print_summary |-> print_summary,
     iteration_no |-> 0]

NoMonitor == [built |-> FALSE, tasks |-> <<>>, print_summary |-> FALSE, iteration_no |-> 0]

\* The monitor context the tasks see.
Context(mon, sess) == [iteration_no |-> mon.iteration_no, global_step |-> sess[GLOBAL_STEP]]

\* The tasks the monitor executes in one call, in task-list order.
TasksDue(tasks, ctx) == SelectSeq(tasks, LAMBDA t : ConditionHolds(t.condition, ctx))

\* The tasks the monitor executes when monitoring stops, in task-list order.
ExitTasks(tasks) == SelectSeq(tasks, LAMBDA t : t.exit_condition)

EventsOf(ran, kind, ctx) ==
    [i \in 1..Len(ran) |->
        [task |-> ran[i].name, kind |-> kind,
         iteration |-> ctx.iteration_no, opt_step |-> ctx.global_step]]

\* What the tasks that ran wrote through their file writers.
WritesOf(ran, kind, ctx, ws, r) ==
    LET tb == SelectSeq(ran, LAMBDA t : t.writer # NO_WRITER)
    IN  [i \in 1..Len(tb) |->
            [task |-> tb[i].name, writer |-> tb[i].writer,
             location |-> ws[tb[i].writer].location,
             writer_open |-> ws[tb[i].writer].open,
             run |-> r, kind |-> kind, iteration |-> ctx.iteration_no]]

\* Did the checkpoint task run?  Its Saver writes into ./monitor-saves, which
\* exists from then on.
Saved(ran) == \E i \in 1..Len(ran) : ran[i].class = "CheckpointTask"

\* The checkpoints after the tasks ran: one more when the checkpoint task ran.
SavesOf(ran, cps, sess, saved) ==
    IF \E i \in 1..Len(ran) : ran[i].class = "CheckpointTask"
    THEN Append(cps, Checkpoint(sess, saved))
    ELSE cps

\* print_summary: one line per task of the monitor's list.
SummaryOf(mon) ==
    IF mon.print_summary THEN [i \in 1..Len(mon.tasks) |-> mon.tasks[i].name] ELSE <<>>

(***************************************************************************)
(* State machine of the monitor notebook                                   *)
(***************************************************************************)
EmptySession == [v \in {} |-> 0]

MonInit ==
    /\ run = 1
    /\ pc = cells[1]
    /\ graph_vars = {}
    /\ session = EmptySession
    /\ defined = {}
    /\ saver_vars = {}
    /\ writers = [h \in {} |-> 0]
    /\ open_log = <<>>
    /\ monitor = NoMonitor
    /\ opt_iter = 0
    /\ call_log = <<>>
    /\ events = <<>>
    /\ summary = <<>>
    /\ restore_log = <<>>
    /\ checkpoints = <<>>
    /\ saves_dir \in BOOLEAN
    /\ event_file = <<>>

\* cell 2: build and compile the model; its variables are named after it.
Cell_BuildModel ==
    /\ pc = "build_model"
    /\ graph_vars' = graph_vars \cup {PARAMS}
    /\ session' = [v \in DOMAIN session \cup {PARAMS} |->
                      IF v = PARAMS THEN 0 ELSE session[v]]
    /\ pc' = NextCell("build_model")
    /\ UNCHANGED <<run, defined, saver_vars, writers, open_log, monitor, opt_iter,
                   call_log, events, summary, restore_log, checkpoints, saves_dir, event_file,
                   ng_vars, ct_vars>>

\* cell 6: session = m.enquire_session(); global_step = mon.create_global_step(session)
Cell_CreateGlobalStep ==
    /\ pc = "create_global_step"
    /\ graph_vars' = graph_vars \cup {GLOBAL_STEP}
    /\ session' = create_global_step(session)
    /\ pc' = NextCell("create_global_step")
    /\ UNCHANGED <<run, defined, saver_vars, writers, open_log, monitor, opt_iter,
                   call_log, events, summary, restore_log, checkpoints, saves_dir, event_file,
                   ng_vars, ct_vars>>

\* Mutant of Cell_DefineTasks: a file writer of its own for each TensorBoard
\* task, both on ./model-tensorboard.
Cell_DefineTasks_writer_per_task ==
    /\ pc = "define_tasks"
    /\ defined' = defined \cup {print_task.name, sleep_task.name, saver_task.name,
                                model_tboard_task.name, lml_tboard_task.name}
    /\ saver_vars' = graph_vars
    /\ LET first == LogdirWriter(writers, file_writer, tensorboard_dir).writers
           second == <<"file_writer", 1>>
       IN  /\ writers' = LogdirWriter(first, second, tensorboard_dir).writers
           /\ open_log' = open_log
                            \o <<OpenRecord(writers, file_writer, tensorboard_dir),
                                 OpenRecord(first, second, tensorboard_dir)>>
    /\ pc' = NextCell("define_tasks")
    /\ UNCHANGED <<run, graph_vars, session, monitor, opt_iter, call_log, events,
                   summary, restore_log, checkpoints, saves_dir, event_file, ng_vars, ct_vars>>

\* cell 8: the five library tasks and the file writer.  The checkpoint task's
\* Saver lists the variables that exist at this moment.
Cell_DefineTasks ==
    /\ pc = "define_tasks"
    /\ defined' = defined \cup {print_task.name, sleep_task.name, saver_task.name,
                                model_tboard_task.name, lml_tboard_task.name}
    /\ saver_vars' = graph_vars
    /\ writers' = LogdirWriter(writers, file_writer, tensorboard_dir).writers
    /\ open_log' = Append(open_log, OpenRecord(writers, file_writer, tensorboard_dir))
    /\ pc' = NextCell("define_tasks")
    /\ UNCHANGED <<run, graph_vars, session, monitor, opt_iter, call_log, events,
                   summary, restore_log, checkpoints, saves_dir, event_file,
                   ng_vars, ct_vars>>

\* cell 11: the custom TensorBoard task, on the same file writer.
Cell_CustomTask ==
    /\ pc = "custom_task"
    /\ defined' = defined \cup {custom_tboard_task.name}
    /\ pc' = NextCell("custom_task")
    /\ UNCHANGED <<run, graph_vars, session, saver_vars, writers, open_log, monitor,
                   opt_iter, call_log, events, summary, restore_log, checkpoints, saves_dir,
                   event_file,
                   ng_vars, ct_vars>>

\* cell 13: monitor = mon.Monitor(monitor_tasks, session, global_step)
Cell_BuildMonitor ==
    /\ pc = "build_monitor"
    /\ monitor' = Monitor(monitor_tasks, FALSE)
    /\ pc' = NextCell("build_monitor")
    /\ UNCHANGED <<run, graph_vars, session, defined, saver_vars, writers, open_log,
                   opt_iter, call_log, events, summary, restore_log, checkpoints, saves_dir,
                   event_file,
                   ng_vars, ct_vars>>

\* Mutant of Cell_Restore: the cell never calls restore_session.
Cell_Restore_skipped ==
    /\ pc = "restore"
    /\ session' = session
    /\ restore_log' = Append(restore_log,
                             [attempted |-> FALSE, error |-> FALSE, before |-> session,
                              n_checkpoints |-> Len(checkpoints)])
    /\ pc' = NextCell("restore")
    /\ UNCHANGED <<run, graph_vars, defined, saver_vars, writers, open_log, monitor,
                   opt_iter, call_log, events, summary, checkpoints, saves_dir,
                   event_file, ng_vars, ct_vars>>

\* cell 15: if os.path.isdir('./monitor-saves'): mon.restore_session(...)
\* When restore_session fails the cell raises and the execution of the
\* notebook stops there.
Cell_Restore ==
    /\ pc = "restore"
    /\ LET attempted == isdir(saves_dir)
           restored == restore_session(session, checkpoints)
           failed == attempted /\ restored.error
       IN  /\ session' = IF attempted THEN restored.session ELSE session
           /\ restore_log' = Append(restore_log,
                                    [attempted |-> attempted, error |-> failed,
                                     before |-> session,
                                     n_checkpoints |-> Len(checkpoints)])
           /\ pc' = IF failed THEN "failed" ELSE NextCell("restore")
    /\ UNCHANGED <<run, graph_vars, defined, saver_vars, writers, open_log, monitor,
                   opt_iter, call_log, events, summary, checkpoints, saves_dir,
                   event_file, ng_vars, ct_vars>>

\* cell 16, entering the with block: a new Monitor with print_summary=True.
MonitorEnter ==
    /\ pc = "optimise"
    /\ monitor' = Monitor(monitor_tasks, TRUE)
    /\ opt_iter' = 0
    /\ pc' = "minimize"
    /\ UNCHANGED <<run, graph_vars, session, defined, saver_vars, writers, open_log,
                   call_log, events, summary, restore_log, checkpoints, saves_dir, event_file,
                   ng_vars, ct_vars>>

\* Mutant of MinimizeStep: minimize is called without step_callback=monitor.
MinimizeStep_no_callback ==
    /\ pc = "minimize"
    /\ opt_iter < maxiter
    /\ opt_iter' = opt_iter + 1
    /\ session' = [session EXCEPT ![PARAMS] = @ + 1, ![GLOBAL_STEP] = @ + 1]
    /\ UNCHANGED <<run, pc, graph_vars, defined, saver_vars, writers, open_log,
                   monitor, call_log, events, summary, restore_log, checkpoints, saves_dir,
                   event_file, ng_vars, ct_vars>>

\* Mutant of MinimizeStep: minimize is called without global_step=global_step.
MinimizeStep_no_global_step ==
    /\ pc = "minimize"
    /\ opt_iter < maxiter
    /\ opt_iter' = opt_iter + 1
    /\ session' = [session EXCEPT ![PARAMS] = @ + 1]
    /\ monitor' = [monitor EXCEPT !.iteration_no = @ + 1]
    /\ call_log' = Append(call_log, monitor'.iteration_no)
    /\ LET ctx == Context(monitor', session')
           ran == TasksDue(monitor'.tasks, ctx)
       IN  /\ events' = events \o EventsOf(ran, "loop", ctx)
           /\ event_file' = event_file \o WritesOf(ran, "loop", ctx, writers, run)
           /\ checkpoints' = SavesOf(ran, checkpoints, session', saver_vars)
           /\ saves_dir' = (saves_dir \/ Saved(ran))
    /\ UNCHANGED <<run, pc, graph_vars, defined, saver_vars, writers, open_log,
                   summary, restore_log, ng_vars, ct_vars>>

\* cell 16, one iteration of optimiser.minimize(m, step_callback=monitor,
\* maxiter=450, global_step=global_step): the optimisation step, then the
\* step callback, which runs the tasks whose condition holds.
MinimizeStep ==
    /\ pc = "minimize"
    /\ opt_iter < maxiter
    /\ opt_iter' = opt_iter + 1
    /\ session' = [session EXCEPT ![PARAMS] = @ + 1, ![GLOBAL_STEP] = @ + 1]
    /\ monitor' = [monitor EXCEPT !.iteration_no = @ + 1]
    /\ call_log' = Append(call_log, monitor'.iteration_no)
    /\ LET ctx == Context(monitor', session')
           ran == TasksDue(monitor'.tasks, ctx)
       IN  /\ events' = events \o EventsOf(ran, "loop", ctx)
           /\ event_file' = event_file \o WritesOf(ran, "loop", ctx, writers, run)
           /\ checkpoints' = SavesOf(ran, checkpoints, session', saver_vars)
           /\ saves_dir' = (saves_dir \/ Saved(ran))
    /\ UNCHANGED <<run, pc, graph_vars, defined, saver_vars, writers, open_log,
                   summary, restore_log,
                   ng_vars, ct_vars>>

\* cell 16, leaving the with block: the tasks with an exit condition run, then
\* the timing summary is printed.
MonitorExit ==
    /\ pc = "minimize"
    /\ opt_iter = maxiter
    /\ LET ctx == Context(monitor, session)
           ran == ExitTasks(monitor.tasks)
       IN  /\ events' = events \o EventsOf(ran, "exit", ctx)
           /\ event_file' = event_file \o WritesOf(ran, "exit", ctx, writers, run)
           /\ checkpoints' = SavesOf(ran, checkpoints, session, saver_vars)
           /\ saves_dir' = (saves_dir \/ Saved(ran))
    /\ summary' = SummaryOf(monitor)
    /\ pc' = "close"
    /\ UNCHANGED <<run, graph_vars, session, defined, saver_vars, writers, open_log,
                   monitor, opt_iter, call_log, restore_log,
                   ng_vars, ct_vars>>

\* Mutant of CloseWriter: file_writer.close() inside the with block, after
\* minimize and before the monitor context is left.
CloseWriter_inside_with ==
    /\ pc = "minimize"
    /\ opt_iter = maxiter
    /\ writers[file_writer].open
    /\ writers' = [writers EXCEPT ![file_writer].open = FALSE]
    /\ UNCHANGED <<run, pc, graph_vars, session, defined, saver_vars, open_log, monitor,
                   opt_iter, call_log, events, summary, restore_log, checkpoints, saves_dir,
                   event_file, ng_vars, ct_vars>>

\* cell 16, last line: file_writer.close()
CloseWriter ==
    /\ pc = "close"
    /\ writers' = [writers EXCEPT ![file_writer].open = FALSE]
    /\ pc' = NextCell("optimise")
    /\ UNCHANGED <<run, graph_vars, session, defined, saver_vars, open_log, monitor,
                   opt_iter, call_log, events, summary, restore_log, checkpoints, saves_dir,
                   event_file,
                   ng_vars, ct_vars>>

\* Some other code of the process opens one more file writer.
OtherAttempts == SelectSeq(open_log, LAMBDA r : r.handle # file_writer)

OpenAnotherWriter ==
    /\ file_writer \in DOMAIN writers
    /\ Len(OtherAttempts) < MaxOpenAttempts
    /\ \E location \in Locations :
          LET handle == <<"other", Len(OtherAttempts) + 1>>
          IN  /\ writers' = LogdirWriter(writers, handle, location).writers
              /\ open_log' = Append(open_log, OpenRecord(writers, handle, location))
    /\ UNCHANGED <<run, pc, graph_vars, session, defined, saver_vars, monitor,
                   opt_iter, call_log, events, summary, restore_log, checkpoints, saves_dir,
                   event_file,
                   ng_vars, ct_vars>>

\* The notebook is executed again in a new process: the files stay.
Rerun ==
    /\ pc \in {"done", "failed"}
    /\ run < MaxRuns
    /\ run' = run + 1
    /\ pc' = cells[1]
    /\ graph_vars' = {}
    /\ session' = EmptySession
    /\ defined' = {}
    /\ saver_vars' = {}
    /\ writers' = [h \in {} |-> 0]
    /\ open_log' = <<>>
    /\ monitor' = NoMonitor
    /\ opt_iter' = 0
    /\ call_log' = <<>>
    /\ events' = <<>>
    /\ summary' = <<>>
    /\ restore_log' = <<>>
    /\ UNCHANGED <<checkpoints, saves_dir, event_file,
                   ng_vars, ct_vars>>

MonNext ==
    \/ Cell_BuildModel
    \/ Cell_CreateGlobalStep
    \/ Cell_DefineTasks
    \/ Cell_CustomTask
    \/ Cell_BuildMonitor
    \/ Cell_Restore
    \/ MonitorEnter
    \/ MinimizeStep
    \/ MonitorExit
    \/ CloseWriter
    \/ OpenAnotherWriter
    \/ Rerun

(***************************************************************************)
(* The natural gradients notebook: run_adam and run_nat_grads_with_adam    *)
(***************************************************************************)
Params == {"kern", "q_mu", "q_sqrt"}

\* The variational parameters of another model object.
OtherParams == {"other.q_mu", "other.q_sqrt"}

AllParams == Params \cup OtherParams

Trainable(flags) == {p \in Params : flags[p]}

\* The var_list argument: None, or a list of (q_mu, q_sqrt) pairs.
VarListNone == [is_none |-> TRUE, pairs |-> <<>>]

VarList(pairs) == [is_none |-> FALSE, pairs |-> pairs]

VarLists ==
    {VarListNone, VarList(<<>>), VarList(<<<<"q_mu", "q_sqrt">>>>),
     VarList(<<<<"other.q_mu", "other.q_sqrt">>>>)}

\* if var_list is None: var_list = [(model.q_mu, model.q_sqrt)]
DefaultVarList(var_list) ==
    IF var_list.is_none THEN VarList(<<<<"q_mu", "q_sqrt">>>>) ELSE var_list

\* make_optimize_action(model, var_list=var_list): the parameters of the pairs.
NatGradVars(var_list) ==
    UNION {{var_list.pairs[i][1], var_list.pairs[i][2]} : i \in 1..Len(var_list.pairs)}

\* Mutant of SetVariationalNotTrainable: only q_mu is made non-trainable.
SetVariationalNotTrainable_only_q_mu(flags) ==
    [p \in Params |-> IF p = "q_mu" THEN FALSE ELSE flags[p]]

\* model.q_mu.set_trainable(False); model.q_sqrt.set_trainable(False)
SetVariationalNotTrainable(flags) ==
    [p \in Params |-> IF p \in {"q_mu", "q_sqrt"} THEN FALSE ELSE flags[p]]

\* Mutant of run_adam_actions: the callback listed before the Adam action.
run_adam_actions_callback_first(callback) ==
    IF callback = "None" THEN <<"adam">> ELSE <<"callback", "adam">>

\* run_adam: actions = [adam] if callback is None else [adam, callback]
run_adam_actions(callback) ==
    IF callback = "None" THEN <<"adam">> ELSE <<"adam", "callback">>

\* Mutant of run_nat_grads_with_adam_actions: the NatGrad action listed first.
run_nat_grads_with_adam_actions_swapped(callback) ==
    IF callback = "None" THEN <<"natgrad", "adam">>
    ELSE <<"natgrad", "adam">> \o <<"callback">>

\* run_nat_grads_with_adam: actions = [adam, natgrad], plus [callback] when given
run_nat_grads_with_adam_actions(callback) ==
    IF callback = "None" THEN <<"adam", "natgrad">>
    ELSE <<"adam", "natgrad">> \o <<"callback">>

\* One optimiser action: one more update of every parameter it optimises.
Optimise(updates, by, params) ==
    [p \in DOMAIN updates |-> IF p \in params THEN [updates[p] EXCEPT ![by] = @ + 1]
                      ELSE updates[p]]

\* Running one action of the list.
RunAction(action, updates, adam_vars, natgrad_vars) ==
    CASE action = "adam" -> Optimise(updates, "adam", adam_vars)
      [] action = "natgrad" -> Optimise(updates, "natgrad", natgrad_vars)
      [] OTHER -> updates

NGInit ==
    /\ ng_pc = "start"
    /\ ng_call \in [fn : {"run_adam", "run_nat_grads_with_adam"},
                    iterations : 0..MaxIterations,
                    var_list : VarLists,
                    callback : {"None", "PrintAction"},
                    trainable : [Params -> BOOLEAN]]
    /\ ng_call.fn = "run_adam" => ng_call.var_list = VarListNone
    /\ ng_trainable = ng_call.trainable
    /\ ng_updates = [p \in AllParams |-> [adam |-> 0, natgrad |-> 0]]
    /\ ng_adam_vars = {}
    /\ ng_natgrad_vars = {}
    /\ ng_actions = <<>>
    /\ ng_iteration = 0
    /\ ng_index = 1
    /\ ng_trace = <<>>

\* The notebook is not running.
NGIdle ==
    /\ ng_pc = "idle"
    /\ ng_call = [fn |-> "none", iterations |-> 0, var_list |-> VarListNone,
                  callback |-> "None", trainable |-> [p \in Params |-> TRUE]]
    /\ ng_trainable = [p \in Params |-> TRUE]
    /\ ng_updates = [p \in AllParams |-> [adam |-> 0, natgrad |-> 0]]
    /\ ng_adam_vars = {}
    /\ ng_natgrad_vars = {}
    /\ ng_actions = <<>>
    /\ ng_iteration = 0
    /\ ng_index = 1
    /\ ng_trace = <<>>

\* run_adam(model, lr, iterations, callback) up to the construction of the Loop.
run_adam ==
    /\ ng_pc = "start"
    /\ ng_call.fn = "run_adam"
    /\ ng_adam_vars' = Trainable(ng_trainable)
    /\ ng_actions' = run_adam_actions(ng_call.callback)
    /\ ng_iteration' = 0
    /\ ng_index' = 1
    /\ ng_pc' = "loop"
    /\ UNCHANGED <<ng_call, ng_trainable, ng_updates, ng_natgrad_vars, ng_trace,
                   mon_vars, ct_vars>>

\* Mutant of run_nat_grads_with_adam: the Adam action is built before q_mu and
\* q_sqrt are made non-trainable.
run_nat_grads_with_adam_adam_built_first ==
    /\ ng_pc = "start"
    /\ ng_call.fn = "run_nat_grads_with_adam"
    /\ ng_adam_vars' = Trainable(ng_trainable)
    /\ ng_trainable' = SetVariationalNotTrainable(ng_trainable)
    /\ ng_natgrad_vars' = NatGradVars(DefaultVarList(ng_call.var_list))
    /\ ng_actions' = run_nat_grads_with_adam_actions(ng_call.callback)
    /\ ng_iteration' = 0
    /\ ng_index' = 1
    /\ ng_pc' = "loop"
    /\ UNCHANGED <<ng_call, ng_updates, ng_trace, mon_vars, ct_vars>>

\* run_nat_grads_with_adam(model, lr, gamma, iterations, var_list, callback) up
\* to the construction of the Loop.
run_nat_grads_with_adam ==
    /\ ng_pc = "start"
    /\ ng_call.fn = "run_nat_grads_with_adam"
    /\ ng_trainable' = SetVariationalNotTrainable(ng_trainable)
    /\ ng_adam_vars' = Trainable(ng_trainable')
    /\ ng_natgrad_vars' = NatGradVars(DefaultVarList(ng_call.var_list))
    /\ ng_actions' = run_nat_grads_with_adam_actions(ng_call.callback)
    /\ ng_iteration' = 0
    /\ ng_index' = 1
    /\ ng_pc' = "loop"
    /\ UNCHANGED <<ng_call, ng_updates, ng_trace,
                   mon_vars, ct_vars>>

\* Loop(actions, stop=iterations)(): the next action of the current iteration.
LoopStep ==
    /\ ng_pc = "loop"
    /\ ng_iteration < ng_call.iterations
    /\ ng_trace' = Append(ng_trace, [action |-> ng_actions[ng_index],
                                     iteration |-> ng_iteration])
    /\ ng_updates' = RunAction(ng_actions[ng_index], ng_updates, ng_adam_vars,
                               ng_natgrad_vars)
    /\ IF ng_index < Len(ng_actions)
       THEN ng_index' = ng_index + 1 /\ ng_iteration' = ng_iteration
       ELSE ng_index' = 1 /\ ng_iteration' = ng_iteration + 1
    /\ UNCHANGED <<ng_pc, ng_call, ng_trainable, ng_adam_vars, ng_natgrad_vars,
                   ng_actions,
                   mon_vars, ct_vars>>

\* The Loop stops when the iteration number reaches `stop`.
LoopStop ==
    /\ ng_pc = "loop"
    /\ ng_iteration >= ng_call.iterations
    /\ ng_pc' = "anchor"
    /\ UNCHANGED <<ng_call, ng_trainable, ng_updates, ng_adam_vars, ng_natgrad_vars,
                   ng_actions, ng_iteration, ng_index, ng_trace,
                   mon_vars, ct_vars>>

\* model.anchor(model.enquire_session()), then the function returns.
Anchor ==
    /\ ng_pc = "anchor"
    /\ ng_pc' = "returned"
    /\ UNCHANGED <<ng_call, ng_trainable, ng_updates, ng_adam_vars, ng_natgrad_vars,
                   ng_actions, ng_iteration, ng_index, ng_trace,
                   mon_vars, ct_vars>>

NGNext ==
    \/ run_adam
    \/ run_nat_grads_with_adam
    \/ LoopStep
    \/ LoopStop
    \/ Anchor

(***************************************************************************)
(* CustomTensorBoardTask (monitor notebook, cell 11)                       *)
(***************************************************************************)
minibatch_size == 100

\* The test sets: the one bound to the module-level names Xt and Yt (cell 2)
\* and another one.  A row is identified by its test set and its index.
TestSets == {"Xt", "other"}

Min(a, b) == IF a <= b THEN a ELSE b

\* len(X)
len(set, rows) == IF set = "Xt" THEN rows ELSE OtherRows

\* X[start:stop, :] for an array of n rows: the bounds are clipped to n.
Slice(set, n, start, stop) ==
    LET a == Min(start, n)
        b == Min(stop, n)
    IN  [i \in 1..(b - a) |-> <<set, a + i - 1>>]

\* Mutant of NumMinibatches: the number of full minibatches.
NumMinibatches_floor(n) == n \div minibatch_size

\* -(-len(Xt) // minibatch_size)
NumMinibatches(n) == -((-n) \div minibatch_size)

\* The rows of a list of arrays, in list order.
RECURSIVE concatenate(_)
concatenate(arrays) ==
    IF arrays = <<>> THEN <<>>
    ELSE Head(arrays) \o concatenate(Tail(arrays))

\* np.vstack of a list of arrays: a ValueError for the empty list, otherwise
\* the rows of the arrays in list order.
vstack(arrays) ==
    IF arrays = <<>> THEN [error |-> TRUE, rows |-> <<>>]
    ELSE [error |-> FALSE, rows |-> concatenate(arrays)]

\* The arrays the names Xt and Yt denote inside run: the module-level ones.
RunXt(self) == "Xt"

RunYt(self) == "Xt"

CTInit ==
    /\ ct_pc = "start"
    /\ ct_rows \in 0..MaxRows
    /\ ct_args \in TestSets
    /\ ct_self = [Xt |-> "none", Yt |-> "none", file_writer |-> NO_WRITER]
    /\ ct_slices = <<>>
    /\ ct_preds = <<>>
    /\ ct_test_err = [X |-> "none", Y |-> "none"]

\* No custom task call is analysed.
CTIdle ==
    /\ ct_pc = "idle"
    /\ ct_rows = 0
    /\ ct_args = "Xt"
    /\ ct_self = [Xt |-> "none", Yt |-> "none", file_writer |-> NO_WRITER]
    /\ ct_slices = <<>>
    /\ ct_preds = <<>>
    /\ ct_test_err = [X |-> "none", Y |-> "none"]

\* CustomTensorBoardTask.__init__(self, file_writer, model, Xt, Yt)
CustomTensorBoardTask_init ==
    /\ ct_pc = "start"
    /\ ct_self' = [Xt |-> ct_args, Yt |-> ct_args, file_writer |-> file_writer]
    /\ ct_pc' = "ready"
    /\ UNCHANGED <<ct_rows, ct_args, ct_slices, ct_preds, ct_test_err, mon_vars, ng_vars>>

\* CustomTensorBoardTask.run(self, context): predict the test set minibatch by
\* minibatch, stack the predictions, compute the test error and write it as a
\* summary through the task's file writer.  When np.vstack raises, the call
\* ends there.
CustomTensorBoardTask_run ==
    /\ ct_pc = "ready"
    /\ LET X == RunXt(ct_self)
           Y == RunYt(ct_self)
           n == len(X, ct_rows)
           slices == [k \in 1..NumMinibatches(n) |->
                         Slice(X, n, (k - 1) * minibatch_size, k * minibatch_size)]
           preds == vstack(slices)
           self == [custom_tboard_task EXCEPT !.writer = ct_self.file_writer]
       IN  /\ ct_slices' = slices
           /\ IF preds.error
              THEN /\ ct_pc' = "error"
                   /\ UNCHANGED <<ct_preds, ct_test_err, event_file>>
              ELSE /\ ct_preds' = preds.rows
                   /\ ct_test_err' = [X |-> X, Y |-> Y]
                   /\ event_file' = event_file
                                      \o WritesOf(<<self>>, "run", Context(monitor, session),
                                                  writers, run)
                   /\ ct_pc' = "done"
    /\ UNCHANGED <<ct_rows, ct_args, ct_self, run, pc, graph_vars, session, defined,
                   saver_vars, writers, open_log, monitor, opt_iter, call_log, events,
                   summary, restore_log, checkpoints, saves_dir, ng_vars>>

CTNext ==
    \/ CustomTensorBoardTask_init
    \/ CustomTensorBoardTask_run

(***************************************************************************)
(* Specifications                                                          *)
(***************************************************************************)
Init == MonInit /\ NGIdle /\ CTIdle

Next == MonNext

\* The monitor notebook, executed up to MaxRuns times.
Spec == Init /\ [][Next]_vars

NatGradsInit == MonInit /\ NGInit /\ CTIdle

NatGradsNext == NGNext

\* One call of run_adam or run_nat_grads_with_adam from the natural gradients notebook.
SpecNatGrads == NatGradsInit /\ [][NatGradsNext]_vars

\* The monitor notebook when cell 11 is reached in its first execution: the
\* model and global_step exist, the tasks of cell 8 and the file writer too.
CustomTaskMonInit ==
    /\ run = 1
    /\ pc = "custom_task"
    /\ graph_vars = {PARAMS, GLOBAL_STEP}
    /\ session = [v \in {PARAMS, GLOBAL_STEP} |-> 0]
    /\ defined = {print_task.name, sleep_task.name, saver_task.name,
                  model_tboard_task.name, lml_tboard_task.name}
    /\ saver_vars = {PARAMS, GLOBAL_STEP}
    /\ writers = LogdirWriter([h \in {} |-> 0], file_writer, tensorboard_dir).writers
    /\ open_log = <<OpenRecord([h \in {} |-> 0], file_writer, tensorboard_dir)>>
    /\ monitor = NoMonitor
    /\ opt_iter = 0
    /\ call_log = <<>>
    /\ events = <<>>
    /\ summary = <<>>
    /\ restore_log = <<>>
    /\ checkpoints = <<>>
    /\ saves_dir \in BOOLEAN
    /\ event_file = <<>>

CustomTaskInit == CustomTaskMonInit /\ NGIdle /\ CTInit

CustomTaskNext == CTNext

\* One CustomTensorBoardTask, constructed and run once.
SpecCustomTask == CustomTaskInit /\ [][CustomTaskNext]_vars

(***************************************************************************)
(* What the stored output of cell 16 shows                                 *)
(***************************************************************************)
\* The "Iteration" column of the print task's lines: 10, 20, ..., 450, 450.
recorded_iterations == [k \in 1..46 |-> IF k <= 45 THEN 10 * k ELSE 450]

\* The task names of the stored "Tasks execution time summary".
recorded_summary ==
    <<"print", "model_tboard", "lml_tboard", "custom_tboard", "saver", "sleep">>

(***************************************************************************)
(* Reading the histories                                                   *)
(***************************************************************************)
EventsOfTask(name, kind) ==
    SelectSeq(events, LAMBDA e : e.task = name /\ e.kind = kind)

\* The iterations at which the task was executed in the loop, in order.
LoopIterations(name) ==
    LET es == EventsOfTask(name, "loop") IN [k \in 1..Len(es) |-> es[k].iteration]

\* The iterations the print task reported, loop and exit, in order.
PrintedIterations ==
    LET es == SelectSeq(events, LAMBDA e : e.task = "print")
    IN  [k \in 1..Len(es) |-> es[k].iteration]

\* The optimisation has finished and the Monitor context has been left.
Finished == pc \in {"close", "done"}

ExitTaskNames == {"print", "model_tboard", "lml_tboard", "custom_tboard", "saver"}

(***************************************************************************)
(* C1  The print task, given PeriodicIterationCondition(10), is executed   *)
(* in the optimisation loop at iteration i exactly when i is a positive    *)
(* multiple of 10: at every moment its loop executions are 10, 20, ... up  *)
(* to the current iteration, and after maxiter = 450 they are 10, ..., 450.*)
(***************************************************************************)
C1_PeriodicPrint ==
    LET it == LoopIterations("print")
    IN  /\ Len(it) = monitor.iteration_no \div 10
        /\ \A k \in 1..Len(it) : it[k] = 10 * k
        /\ Finished => Len(it) = 45 /\ it[45] = 450

C1_Witness ==
    /\ pc = "done"
    /\ Len(LoopIterations("print")) = 45
    /\ Len(LoopIterations("sleep")) = 450

(***************************************************************************)
(* C2  Every task with with_exit_condition(True) is run exactly once when  *)
(* the Monitor context exits, after the last loop execution, also when its *)
(* periodic condition made it run at that last iteration: the print task   *)
(* reports 10, ..., 450 and then 450 once more, as the stored output shows.*)
(***************************************************************************)
C2_ExitRunsOnce ==
    /\ ~Finished => \A i \in 1..Len(events) : events[i].kind = "loop"
    /\ Finished =>
          /\ \A name \in ExitTaskNames :
                /\ Len(EventsOfTask(name, "exit")) = 1
                /\ EventsOfTask(name, "exit")[1].iteration = 450
          /\ \A i \in 1..Len(events) :
                events[i].kind = "exit" =>
                    /\ i > Len(events) - 5
                    /\ events[i].task \in ExitTaskNames
          /\ Len(events) >= 5
          /\ \A i \in 1..(Len(events) - 5) : events[i].kind = "loop"
          /\ PrintedIterations = recorded_iterations

C2_Witness ==
    /\ pc = "close"
    /\ PrintedIterations = recorded_iterations
    /\ EventsOfTask("print", "loop")[45].iteration = 450
    /\ EventsOfTask("print", "exit")[1].iteration = 450

(***************************************************************************)
(* C3  The sleep task, given neither a condition nor an exit condition, is *)
(* run at every iteration of the loop (450 times for maxiter = 450) and is *)
(* not run again at the end of optimisation.                               *)
(***************************************************************************)
C3_SleepEveryIteration ==
    LET it == LoopIterations("sleep")
    IN  /\ Len(it) = monitor.iteration_no
        /\ \A k \in 1..Len(it) : it[k] = k
        /\ EventsOfTask("sleep", "exit") = <<>>
        /\ Finished => Len(it) = 450

C3_Witness ==
    /\ pc = "done"
    /\ Len(LoopIterations("sleep")) = 450
    /\ Len(EventsOfTask("print", "exit")) = 1
    /\ Len(EventsOfTask("sleep", "exit")) = 0

C4_ConditionOf(name, i) ==
    CASE name \in {"print", "model_tboard", "saver"} -> i > 0 /\ i % 10 = 0
      [] name \in {"lml_tboard", "custom_tboard"} -> i > 0 /\ i % 100 = 0
      [] name = "sleep" -> i > 0
      [] OTHER -> FALSE

C4_LoopEvents == SelectSeq(events, LAMBDA e : e.kind = "loop")

(***************************************************************************)
(* C4  The monitor is called once per optimisation step, with iteration    *)
(* numbers 1, 2, ... in increasing order (450 calls for maxiter = 450),    *)
(* and a call executes only the tasks whose running condition holds:       *)
(* every 10th iteration for print, model_tboard and saver, every 100th for *)
(* lml_tboard and custom_tboard, every iteration for sleep.                *)
(***************************************************************************)
C4_MonitorIsStepCallback ==
    LET loop == C4_LoopEvents
    IN  /\ Len(call_log) = opt_iter
        /\ \A k \in 1..Len(call_log) : call_log[k] = k
        /\ Finished => Len(call_log) = 450
        /\ \A i \in 1..Len(loop) :
              /\ loop[i].iteration \in 1..opt_iter
              /\ C4_ConditionOf(loop[i].task, loop[i].iteration)
        /\ Len(loop) = opt_iter + 3 * (opt_iter \div 10) + 2 * (opt_iter \div 100)
        /\ \A i \in 1..(Len(loop) - 1) : loop[i].iteration <= loop[i + 1].iteration

C4_Witness ==
    /\ pc = "close"
    /\ Len(call_log) = 450
    /\ call_log[450] = 450
    /\ Len(C4_LoopEvents) = 450 + 135 + 8

C5_StartStep ==
    IF restore_log # <<>> /\ restore_log[1].attempted
    THEN checkpoints[restore_log[1].n_checkpoints][GLOBAL_STEP]
    ELSE 0

(***************************************************************************)
(* C5  global_step counts the optimisation steps: it is the value the run  *)
(* started from plus the number of steps done, so in a run that restored   *)
(* no checkpoint (global_step starts at 0) every line of the print task    *)
(* shows an optimisation step equal to its iteration number.               *)
(***************************************************************************)
C5_GlobalStepTracksSteps ==
    /\ pc \in {"minimize", "close", "done"} =>
          session[GLOBAL_STEP] = C5_StartStep + opt_iter
    /\ (restore_log # <<>> /\ ~restore_log[1].attempted) =>
          \A i \in 1..Len(events) :
              events[i].task = "print" => events[i].opt_step = events[i].iteration

C5_Witness ==
    /\ pc = "done"
    /\ ~restore_log[1].attempted
    /\ session[GLOBAL_STEP] = 450
    /\ Len(EventsOfTask("print", "loop")) = 45
    /\ EventsOfTask("print", "loop")[45].opt_step = 450

(***************************************************************************)
(* C6  global_step is created before the checkpoint task and the Monitor   *)
(* are constructed: when the checkpoint task exists its Saver lists        *)
(* global_step and the model parameters, a Monitor is only ever built over *)
(* an existing global_step, and every checkpoint written stores both.      *)
(***************************************************************************)
C6_GlobalStepBeforeSaver ==
    /\ "saver" \in defined => saver_vars = {PARAMS, GLOBAL_STEP}
    /\ monitor.built => GLOBAL_STEP \in graph_vars /\ "saver" \in defined
    /\ \A k \in 1..Len(checkpoints) : DOMAIN checkpoints[k] = {PARAMS, GLOBAL_STEP}

C6_Witness ==
    /\ "saver" \in defined
    /\ monitor.built
    /\ GLOBAL_STEP \in saver_vars
    /\ Len(checkpoints) > 0

\* The claim as stated: a restore from the latest checkpoint whenever the
\* directory exists.
C7_AsStated ==
    (restore_log # <<>> /\ pc \in {"optimise", "failed"}) =>
        LET r == restore_log[1]
        IN  /\ saves_dir =>
                  /\ r.attempted
                  /\ pc = "optimise"
                  /\ Len(checkpoints) > 0
                  /\ session[PARAMS] = checkpoints[Len(checkpoints)][PARAMS]
                  /\ session[GLOBAL_STEP] = checkpoints[Len(checkpoints)][GLOBAL_STEP]
            /\ ~saves_dir =>
                  /\ ~r.attempted
                  /\ pc = "optimise"
                  /\ session = r.before

(***************************************************************************)
(* C7  Once the restore cell has run: when ./monitor-saves exists and      *)
(* holds a checkpoint, restore_session has set the model parameters and    *)
(* global_step together to the values of the latest checkpoint the         *)
(* checkpoint task wrote, and the optimisation starts from them; when the  *)
(* directory exists without a checkpoint, restore_session was called and   *)
(* failed, the session is as it was and the optimisation is not reached;   *)
(* when the directory does not exist no restore was attempted and the      *)
(* session is as it was.                                                   *)
(***************************************************************************)
C7_RestoreLatestCheckpoint ==
    (restore_log # <<>> /\ pc \in {"optimise", "failed"}) =>
        LET r == restore_log[1]
        IN  /\ Len(restore_log) = 1
            /\ opt_iter = 0 /\ call_log = <<>>
            /\ r.n_checkpoints = Len(checkpoints)
            /\ (saves_dir /\ Len(checkpoints) > 0) =>
                  /\ r.attempted /\ ~r.error
                  /\ pc = "optimise"
                  /\ session[PARAMS] = checkpoints[Len(checkpoints)][PARAMS]
                  /\ session[GLOBAL_STEP] = checkpoints[Len(checkpoints)][GLOBAL_STEP]
                  /\ session[PARAMS] = 450 * (Len(checkpoints) \div 46)
                  /\ session[GLOBAL_STEP] = 450 * (Len(checkpoints) \div 46)
                  /\ DOMAIN session = DOMAIN r.before
            /\ (saves_dir /\ Len(checkpoints) = 0) =>
                  /\ r.attempted /\ r.error
                  /\ pc = "failed"
                  /\ session = r.before
            /\ ~saves_dir =>
                  /\ ~r.attempted /\ ~r.error
                  /\ pc = "optimise"
                  /\ Len(checkpoints) = 0
                  /\ session = r.before
                  /\ session[PARAMS] = 0 /\ session[GLOBAL_STEP] = 0

C7_Witness ==
    /\ pc = "optimise"
    /\ run = 2
    /\ saves_dir
    /\ Len(checkpoints) = 46
    /\ restore_log[1].attempted
    /\ restore_log[1].before[GLOBAL_STEP] = 0
    /\ session[GLOBAL_STEP] = 450
    /\ session[PARAMS] = 450

C8_NotebookOpens == SelectSeq(open_log, LAMBDA r : r.handle[1] = "file_writer")

(***************************************************************************)
(* C8  The two TensorBoard tasks and the custom task write all their       *)
(* events through the one file writer the notebook opens, which opens      *)
(* without error; no two open writers ever share an event location, and    *)
(* an attempt to open a writer on a location an open writer uses ends in   *)
(* an error and opens nothing.                                             *)
(***************************************************************************)
C8_SharedWriterNotLocation ==
    /\ \A e \in {event_file[i] : i \in 1..Len(event_file)} :
          /\ e.task \in {"model_tboard", "lml_tboard", "custom_tboard"}
          /\ e.writer = file_writer
          /\ e.location = tensorboard_dir
    /\ Len(C8_NotebookOpens) <= 1
    /\ \A i \in 1..Len(C8_NotebookOpens) : C8_NotebookOpens[i].result = "ok"
    /\ Finished =>
          \A name \in {"model_tboard", "lml_tboard", "custom_tboard"} :
              \E i \in 1..Len(event_file) :
                  event_file[i].task = name /\ event_file[i].run = run
    /\ \A h1, h2 \in DOMAIN writers :
          (h1 # h2 /\ writers[h1].open /\ writers[h2].open)
              => writers[h1].location # writers[h2].location
    /\ \A i \in 1..Len(open_log) :
          /\ open_log[i].in_use => open_log[i].result = "error"
          /\ open_log[i].result = "error" => open_log[i].handle \notin DOMAIN writers
          /\ open_log[i].result = "ok" => open_log[i].handle \in DOMAIN writers

C8_Witness ==
    /\ pc = "done"
    /\ \E i \in 1..Len(open_log) :
          /\ open_log[i].handle # file_writer
          /\ open_log[i].location = tensorboard_dir
          /\ open_log[i].result = "error"
    /\ \E i, j, k \in 1..Len(event_file) :
          /\ event_file[i].task = "model_tboard"
          /\ event_file[j].task = "lml_tboard"
          /\ event_file[k].task = "custom_tboard"

(***************************************************************************)
(* C9  With print_summary=True, leaving the Monitor context prints a       *)
(* timing summary with exactly one entry per task of the task list, under  *)
(* the name given by with_name, in task-list order: print, model_tboard,   *)
(* lml_tboard, custom_tboard, saver, sleep.  Nothing is printed before.    *)
(***************************************************************************)
C9_SummaryPerTask ==
    /\ Finished => summary = recorded_summary
    /\ ~Finished => summary = <<>>

C9_Witness ==
    /\ pc = "close"
    /\ monitor.print_summary
    /\ Len(summary) = 6
    /\ summary[1] = "print"
    /\ summary[6] = "sleep"

C10_Expected(callback) ==
    IF callback = "None" THEN <<"adam", "natgrad">>
    ELSE <<"adam", "natgrad", "callback">>

C10_CallbackIterations ==
    LET cb == SelectSeq(ng_trace, LAMBDA r : r.action = "callback")
    IN  [k \in 1..Len(cb) |-> cb[k].iteration]

(***************************************************************************)
(* C10  run_nat_grads_with_adam interleaves the optimisers: every Loop     *)
(* iteration runs the Adam action, then the NatGrad action, then the       *)
(* callback when one is given, and the callback sees the iteration numbers *)
(* 0, 1, ..., iterations-1, each exactly once.                             *)
(***************************************************************************)
C10_Interleaving ==
    (ng_call.fn = "run_nat_grads_with_adam" /\ ng_pc # "start") =>
        LET order == C10_Expected(ng_call.callback)
            n == Len(order)
        IN  /\ \A k \in 1..Len(ng_trace) :
                  /\ ng_trace[k].action = order[((k - 1) % n) + 1]
                  /\ ng_trace[k].iteration = (k - 1) \div n
            /\ Len(ng_trace) <= n * ng_call.iterations
            /\ ng_pc \in {"anchor", "returned"} =>
                  /\ Len(ng_trace) = n * ng_call.iterations
                  /\ C10_CallbackIterations =
                        IF ng_call.callback = "None" THEN <<>>
                        ELSE [k \in 1..ng_call.iterations |-> k - 1]

C10_Witness ==
    /\ ng_pc = "returned"
    /\ ng_call.fn = "run_nat_grads_with_adam"
    /\ ng_call.callback = "PrintAction"
    /\ ng_call.iterations = 5
    /\ C10_CallbackIterations = <<0, 1, 2, 3, 4>>
    /\ Len(ng_trace) = 15

NG_Count(action) == Len(SelectSeq(ng_trace, LAMBDA r : r.action = action))

(***************************************************************************)
(* C13  In run_nat_grads_with_adam q_mu and q_sqrt are made non-trainable  *)
(* before the Adam action is built: the Adam action does not optimise      *)
(* them and never changes them during the loop; they are changed only by   *)
(* the NatGrad action: once per NatGrad action run when var_list names     *)
(* them (or is omitted), and not at all otherwise.                         *)
(***************************************************************************)
C13_AdamLeavesVariational ==
    (ng_call.fn = "run_nat_grads_with_adam" /\ ng_pc # "start") =>
        /\ ng_adam_vars \cap {"q_mu", "q_sqrt"} = {}
        /\ ng_adam_vars = {p \in {"kern"} : ng_call.trainable[p]}
        /\ \A p \in {"q_mu", "q_sqrt"} :
              /\ ng_updates[p].adam = 0
              /\ ng_updates[p].natgrad =
                    IF \/ ng_call.var_list.is_none
                       \/ \E i \in 1..Len(ng_call.var_list.pairs) :
                             p \in {ng_call.var_list.pairs[i][1],
                                    ng_call.var_list.pairs[i][2]}
                    THEN NG_Count("natgrad") ELSE 0
        /\ \A p \in OtherParams : ng_updates[p].adam = 0
        /\ ng_updates["kern"].natgrad = 0
        /\ ng_updates["kern"].adam =
              IF ng_call.trainable["kern"] THEN NG_Count("adam") ELSE 0

C13_Witness ==
    /\ ng_pc = "returned"
    /\ ng_call.fn = "run_nat_grads_with_adam"
    /\ ng_call.iterations = 5
    /\ ng_call.var_list = VarListNone
    /\ \A p \in Params : ng_call.trainable[p]
    /\ ng_updates["q_mu"] = [adam |-> 0, natgrad |-> 5]
    /\ ng_updates["q_sqrt"] = [adam |-> 0, natgrad |-> 5]
    /\ ng_updates["kern"] = [adam |-> 5, natgrad |-> 0]

(***************************************************************************)
(* C14  run_adam runs the list [adam] without a callback and               *)
(* [adam, callback] with one, for exactly `iterations` loop iterations:    *)
(* the callback runs after the Adam step of the same iteration, sees the   *)
(* iteration numbers 0, ..., iterations-1, and when the loop has stopped   *)
(* no action has run an extra time.                                        *)
(***************************************************************************)
C14_RunAdamLoop ==
    (ng_call.fn = "run_adam" /\ ng_pc # "start") =>
        LET order == IF ng_call.callback = "None" THEN <<"adam">>
                     ELSE <<"adam", "callback">>
            n == Len(order)
        IN  /\ ng_actions = order
            /\ \A k \in 1..Len(ng_trace) :
                  /\ ng_trace[k].action = order[((k - 1) % n) + 1]
                  /\ ng_trace[k].iteration = (k - 1) \div n
            /\ Len(ng_trace) <= n * ng_call.iterations
            /\ NG_Count("natgrad") = 0
            /\ ng_pc \in {"anchor", "returned"} =>
                  /\ Len(ng_trace) = n * ng_call.iterations
                  /\ NG_Count("adam") = ng_call.iterations
                  /\ NG_Count("callback") =
                        IF ng_call.callback = "None" THEN 0 ELSE ng_call.iterations

C14_Witness ==
    /\ ng_pc = "returned"
    /\ ng_call.fn = "run_adam"
    /\ ng_call.callback = "PrintAction"
    /\ ng_call.iterations = 5
    /\ Len(ng_trace) = 10
    /\ ng_trace[9] = [action |-> "adam", iteration |-> 4]
    /\ ng_trace[10] = [action |-> "callback", iteration |-> 4]

(***************************************************************************)
(* C20  run_nat_grads_with_adam does not restore the trainable flags it    *)
(* changes: from the moment it has set them, and still after it returned,  *)
(* q_mu and q_sqrt are non-trainable whatever they were before the call,   *)
(* and every other parameter's flag is what it was before the call.        *)
(***************************************************************************)
C20_FlagsNotRestored ==
    (ng_call.fn = "run_nat_grads_with_adam" /\ ng_pc # "start") =>
        /\ ~ng_trainable["q_mu"]
        /\ ~ng_trainable["q_sqrt"]
        /\ \A p \in Params \ {"q_mu", "q_sqrt"} : ng_trainable[p] = ng_call.trainable[p]

C20_Witness ==
    /\ ng_pc = "returned"
    /\ ng_call.fn = "run_nat_grads_with_adam"
    /\ ng_call.trainable["q_mu"] /\ ng_call.trainable["q_sqrt"]
    /\ ~ng_call.trainable["kern"]
    /\ ng_trainable = [p \in Params |-> FALSE]

\* The position of a task in the list of cell 13.
C19_ListOrder == <<"print", "model_tboard", "lml_tboard", "custom_tboard", "saver", "sleep">>

C19_Rank(name) == CHOOSE k \in 1..Len(C19_ListOrder) : C19_ListOrder[k] = name

(***************************************************************************)
(* C19  Tasks due at the same iteration execute in the order of the task   *)
(* list [print, model_tboard, lml_tboard, custom_tboard, saver, sleep]:    *)
(* of two executions in the same monitor call the one of the task listed   *)
(* first comes first.  At iterations 100, 200, 300 and 400 the print task  *)
(* executes before the likelihood task, and the executions on exit follow  *)
(* the same order.                                                         *)
(***************************************************************************)
C19_TaskListOrder ==
    LET evs == events
        at(name, kind, it) ==
            {i \in 1..Len(evs) : evs[i] = [task |-> name, kind |-> kind, iteration |-> it,
                                           opt_step |-> evs[i].opt_step]}
    IN  /\ \A i \in 1..(Len(evs) - 1) :
              (evs[i].kind = evs[i + 1].kind /\ evs[i].iteration = evs[i + 1].iteration)
                  => C19_Rank(evs[i].task) < C19_Rank(evs[i + 1].task)
        /\ \A it \in {100, 200, 300, 400} : \A kind \in {"loop", "exit"} :
              \A j \in at("lml_tboard", kind, it) :
                  \E i \in at("print", kind, it) : i < j
        /\ \A j \in 1..Len(evs) :
              (evs[j].kind = "exit" /\ evs[j].task = "lml_tboard")
                  => \E i \in 1..(j - 1) : evs[i].kind = "exit" /\ evs[i].task = "print"

C19_Witness ==
    /\ Finished
    /\ \E i \in 1..(Len(events) - 5) :
          /\ events[i].iteration = 400 /\ events[i].kind = "loop"
          /\ [k \in 1..6 |-> events[i + k - 1].task] = C19_ListOrder
          /\ \A k \in 1..5 : events[i + k].iteration = 400 /\ events[i + k].kind = "loop"
    /\ \E i \in 1..(Len(events) - 2) :
          /\ events[i].kind = "exit" /\ events[i].task = "print"
          /\ events[i + 2].kind = "exit" /\ events[i + 2].task = "lml_tboard"

(***************************************************************************)
(* C18  The file writer is closed only after the Monitor context has been  *)
(* left: while it is closed the exit executions of the tasks have all      *)
(* happened, and no task ever writes an event through a writer that is     *)
(* closed.                                                                 *)
(***************************************************************************)
C18_NoWriteAfterClose ==
    /\ \A i \in 1..Len(event_file) : event_file[i].writer_open
    /\ (file_writer \in DOMAIN writers /\ ~writers[file_writer].open) =>
          /\ pc = "done"
          /\ opt_iter = maxiter
          /\ \A name \in {"model_tboard", "lml_tboard", "custom_tboard"} :
                \E i \in 1..Len(event_file) :
                    /\ event_file[i].task = name
                    /\ event_file[i].kind = "exit"
                    /\ event_file[i].run = run

C18_Witness ==
    /\ pc = "done"
    /\ ~writers[file_writer].open
    /\ Len(event_file) > 0
    /\ LET last == event_file[Len(event_file)]
       IN  /\ last.kind = "exit"
           /\ last.task = "custom_tboard"
           /\ last.writer = file_writer
           /\ last.writer_open
           /\ last.run = run

\* The least k with 100 * k >= n.
C15_Ceil(n) == CHOOSE k \in 0..n : 100 * k >= n /\ (k = 0 \/ 100 * (k - 1) < n)

\* The rows 0, ..., n-1 of the module-level test set, in order.
C15_AllRows(n) == [i \in 1..n |-> <<"Xt", i - 1>>]

(***************************************************************************)
(* C15  CustomTensorBoardTask.run slices the test set in minibatches of    *)
(* 100: for a test set of n >= 1 rows it evaluates exactly ceil(n/100)     *)
(* slices, slice k holds the rows 100(k-1), ..., min(100k, n) - 1, so the  *)
(* slices cover the rows 0, ..., n-1 exactly once and in order, no slice   *)
(* is empty, and the stacked predictions have exactly n rows.              *)
(***************************************************************************)
C15_MinibatchSlices ==
    LET n == ct_rows
    IN  (ct_pc \in {"done", "error"} /\ n >= 1) =>
            /\ ct_pc = "done"
            /\ Len(ct_slices) = C15_Ceil(n)
            /\ \A k \in 1..Len(ct_slices) :
                  /\ ct_slices[k] # <<>>
                  /\ ct_slices[k] =
                        [i \in 1..(Min(100 * k, n) - 100 * (k - 1)) |->
                            <<"Xt", 100 * (k - 1) + i - 1>>]
            /\ ct_preds = C15_AllRows(n)
            /\ Len(ct_preds) = n

C15_Witness ==
    /\ ct_pc = "done"
    /\ ct_rows = 201
    /\ Len(ct_slices) = 3
    /\ Len(ct_slices[1]) = 100
    /\ Len(ct_slices[2]) = 100
    /\ ct_slices[3] = <<<<"Xt", 200>>>>
    /\ Len(ct_preds) = 201
    /\ Len(event_file) = 1

(***************************************************************************)
(* C16  run computes the test error on the test set that was passed to the *)
(* constructor (self.Xt, self.Yt): the error reported is the error of that *)
(* test set, whatever the module-level names Xt and Yt are bound to.       *)
(***************************************************************************)
C16_UsesOwnTestSet ==
    ct_pc = "done" =>
        /\ ct_test_err.X = ct_self.Xt
        /\ ct_test_err.Y = ct_self.Yt
        /\ \A i \in 1..Len(ct_preds) : ct_preds[i][1] = ct_self.Xt
        /\ Len(ct_preds) = len(ct_self.Xt, ct_rows)

====
